---- MODULE Spec2Model ----
(***************************************************************************)
(* Model of git_stat_script.py: normalize_name, load_grouping_mapping and   *)
(* main (validate, chdir, load aliases, list files, blame every file,       *)
(* group, report, restore the working directory).                           *)
(*                                                                          *)
(* Strings are sequences of one-character strings.  Characters outside      *)
(* ASCII are named by their code point ("U2102" is DOUBLE-STRUCK CAPITAL C).*)
(***************************************************************************)
EXTENDS Integers, Sequences, FiniteSets, TLC

VARIABLES
    \* ---- main ----
    pc,             \* position of main
    repo,           \* what repo_path names: [isDir, hasGit]
    grouping_file,  \* the --grouping-file argument (NoArg when absent)
    entry_dir,      \* the working directory when main was entered
    cwd,            \* the process working directory
    original_dir,   \* main's local original_dir
    group_mapping,  \* main's local group_mapping
    lookedUp,       \* the location load_grouping_mapping tested with isfile
    cwdAtLoad,      \* the working directory when load_grouping_mapping ran
    lsOutcome,      \* how the 'git ls-files' invocation ended
    files,          \* main's local files
    index,          \* number of files the loop has finished
    author_counts,  \* main's local author_counts
    blamed,         \* per file finished, whether the loop counted or skipped it
    last,           \* how the latest blame invocation ended
    prev_counts,    \* author_counts before the latest blame invocation
    procs,          \* external processes started so far
    aggregated,     \* line 118 was reached
    grouped_counts, \* main's local grouped_counts
    tablePrinted,   \* line 133 was executed
    chartRendered,  \* plt.show() was called
    result,         \* how main ended
    \* ---- normalize_name applied twice ----
    npc, name_in, name_once, name_twice,
    \* ---- load_grouping_mapping, line by line ----
    lpc, glines, lidx, mapping, ioFailsAt

mainVars == << pc, repo, grouping_file, entry_dir, cwd, original_dir, group_mapping,
               lookedUp, cwdAtLoad, lsOutcome, files, index, author_counts,
               blamed, last, prev_counts, procs, aggregated, grouped_counts, tablePrinted,
               chartRendered, result >>
normVars == << npc, name_in, name_once, name_twice >>
loadVars == << lpc, glines, lidx, mapping, ioFailsAt >>
vars == << mainVars, normVars, loadVars >>

(***************************************************************************)
(* Bounds                                                                   *)
(***************************************************************************)
MaxNameLen == 3     \* longest name given to normalize_name
MaxGLines == 2      \* most lines of a grouping file
MaxFiles == 2       \* most files 'git ls-files' lists
MaxLines == 2       \* most source lines of a blamed file

(***************************************************************************)
(* Sequence helpers                                                         *)
(***************************************************************************)
RECURSIVE Flatten(_)
Flatten(ss) == IF ss = << >> THEN << >> ELSE Head(ss) \o Flatten(Tail(ss))

RECURSIVE SeqsUpTo(_, _)
SeqsUpTo(S, n) ==
    IF n = 0 THEN { << >> }
    ELSE LET shorter == SeqsUpTo(S, n - 1)
         IN shorter \cup { Append(s, x) : s \in shorter, x \in S }

NoEntry == "<none>"
EmptyMap == [k \in {} |-> NoEntry]
Put(m, k, v) == [x \in (DOMAIN m) \cup {k} |-> IF x = k THEN v ELSE m[x]]
Get(m, k, default) == IF k \in DOMAIN m THEN m[k] ELSE default
Inc(m, k, n) == Put(m, k, Get(m, k, 0) + n)

RECURSIVE SumOver(_, _)
SumOver(m, S) ==
    IF S = {} THEN 0
    ELSE LET k == CHOOSE x \in S : TRUE IN m[k] + SumOver(m, S \ {k})
Total(m) == SumOver(m, DOMAIN m)

(***************************************************************************)
(* Python str operations                                                    *)
(***************************************************************************)
\* str.isspace() of one character
IsSpace(c) == c \in {" ", "\t", "\n", "\r", "\f", "U00A0"}

RECURSIVE LStrip(_)
LStrip(s) == IF s # << >> /\ IsSpace(Head(s)) THEN LStrip(Tail(s)) ELSE s

RECURSIVE RStrip(_)
RStrip(s) ==
    IF s # << >> /\ IsSpace(s[Len(s)]) THEN RStrip(SubSeq(s, 1, Len(s) - 1)) ELSE s

\* str.strip()
Strip(s) == RStrip(LStrip(s))

\* str.lower() of one character; U2102 is category Lu but has no lowercase
LowerChar(c) ==
    CASE c = "A" -> "a"
      [] c = "B" -> "b"
      [] c = "C" -> "c"
      [] c = "G" -> "g"
      [] c = "X" -> "x"
      [] c = "U00C4" -> "U00E4"
      [] OTHER -> c

\* str.lower()
Lower(s) == [i \in 1..Len(s) |-> LowerChar(s[i])]

\* str.startswith(prefix)
StartsWith(s, prefix) ==
    /\ Len(s) >= Len(prefix)
    /\ SubSeq(s, 1, Len(prefix)) = prefix

\* sep in s, for a one-character sep
Contains(s, sep) == \E i \in 1..Len(s) : s[i] = sep

\* index of the first sep in s (s contains sep)
FirstIndex(s, sep) == CHOOSE i \in 1..Len(s) : s[i] = sep /\ \A j \in 1..(i - 1) : s[j] # sep

\* str.split(sep) for a one-character sep
RECURSIVE Split(_, _)
Split(s, sep) ==
    IF ~Contains(s, sep) THEN << s >>
    ELSE LET i == FirstIndex(s, sep)
         IN << SubSeq(s, 1, i - 1) >> \o Split(SubSeq(s, i + 1, Len(s)), sep)

\* str.split(sep, 1) of a string that contains sep
SplitOnce(s, sep) ==
    LET i == FirstIndex(s, sep)
    IN << SubSeq(s, 1, i - 1), SubSeq(s, i + 1, Len(s)) >>

(***************************************************************************)
(* unicodedata.normalize('NFKC', s)                                         *)
(***************************************************************************)
\* full compatibility decomposition of one character
Decomp(c) ==
    CASE c = "U2102" -> << "C" >>              \* DOUBLE-STRUCK CAPITAL C
      [] c = "U00A8" -> << " ", "U0308" >>     \* DIAERESIS
      [] c = "U00A0" -> << " " >>              \* NO-BREAK SPACE
      [] c = "U00E4" -> << "a", "U0308" >>     \* a with diaeresis
      [] c = "U00C4" -> << "A", "U0308" >>     \* A with diaeresis
      [] OTHER -> << c >>

Decompose(s) == Flatten([i \in 1..Len(s) |-> Decomp(s[i])])

\* canonical composition of a starter and the combining diaeresis
Composite(base) ==
    CASE base = "a" -> "U00E4"
      [] base = "A" -> "U00C4"
      [] OTHER -> NoEntry

RECURSIVE Compose(_)
Compose(s) ==
    IF Len(s) < 2 THEN s
    ELSE IF s[2] = "U0308" /\ Composite(s[1]) # NoEntry
         THEN << Composite(s[1]) >> \o Compose(SubSeq(s, 3, Len(s)))
         ELSE << s[1] >> \o Compose(Tail(s))

NFKC(s) == Compose(Decompose(s))

(***************************************************************************)
(* normalize_name                                                           *)
(***************************************************************************)
normalize_name(name) == NFKC(Lower(Strip(name)))

NameAlphabet == {"a", "A", " ", "U2102", "U00A8", "U0308"}
Names == SeqsUpTo(NameAlphabet, MaxNameLen)

(***************************************************************************)
(* load_grouping_mapping                                                    *)
(***************************************************************************)
NonEmpty(a) == a # << >>

\* the mutant keeps the first group an alias was given
RECURSIVE RegisterAliases_keepFirst(_, _, _)
RegisterAliases_keepFirst(m, aliases, group_name) ==
    IF aliases = << >> THEN m
    ELSE LET k == normalize_name(Head(aliases))
         IN RegisterAliases_keepFirst(IF k \in DOMAIN m THEN m ELSE Put(m, k, group_name),
                                      Tail(aliases), group_name)

\* lines 43-44: register every alias of one line, in order
RECURSIVE RegisterAliases(_, _, _)
RegisterAliases(m, aliases, group_name) ==
    IF aliases = << >> THEN m
    ELSE RegisterAliases(Put(m, normalize_name(Head(aliases)), group_name),
                         Tail(aliases), group_name)

\* the body of the loop over the lines of the file, lines 35-44
ProcessLine(m, rawline) ==
    LET line == Strip(rawline)
    IN IF line = << >> \/ StartsWith(line, << "#" >>) THEN m
       ELSE IF ~Contains(line, ":") THEN m
       ELSE LET parts == SplitOnce(line, ":")
                group_name == Strip(parts[1])
                pieces == Split(parts[2], ",")
                aliases == SelectSeq([i \in 1..Len(pieces) |-> Strip(pieces[i])], NonEmpty)
            IN RegisterAliases(m, aliases, group_name)

RECURSIVE ReadLines(_, _)
ReadLines(m, lines) ==
    IF lines = << >> THEN m ELSE ReadLines(ProcessLine(m, Head(lines)), Tail(lines))

\* file: [exists, lines]; ioError: reading raises after the existence check
load_grouping_mapping(file, ioError) ==
    IF ~file.exists THEN EmptyMap
    ELSE IF ioError THEN EmptyMap
    ELSE ReadLines(EmptyMap, file.lines)

\* the lines grouping files are made of
GroupingLines == {
    << "A", ":", " ", "x", ",", " ", "y" >>,                          \* "A: x, y"
    << "B", ":", " ", "x" >>,                                         \* "B: x"
    << "x", ",", " ", "y" >>,                                         \* no colon
    << "#", " ", "B", ":", " ", "y" >>,                               \* comment
    << >>,                                                            \* empty
    << " ", " " >>,                                                   \* blank
    << " ", "A", " ", ":", " ", "X", " ", ",", ",", "y", " " >>,      \* " A : X ,,y "
    << "B", ":" >>,                                                   \* no aliases
    << "G", ":", " ", "y", ":", " ", "x" >>,                          \* second colon
    << " ", "#", "A", ":", " ", "x" >>,                               \* indented comment
    << "b", " ", ":", "U2102" >>,                                     \* alias folds to "C"
    << ":", " ", "y", ",", " ", "X" >>                                \* empty group name
}

LoadInit ==
    /\ lpc = "reading"
    /\ glines \in SeqsUpTo(GroupingLines, MaxGLines)
    /\ lidx = 0
    /\ mapping = EmptyMap
    /\ ioFailsAt \in 0..(MaxGLines + 1)
    /\ ioFailsAt <= Len(glines) + 1
    \* main and normalize_name are not running
    /\ pc = "idle"
    /\ repo = [isDir |-> FALSE, hasGit |-> FALSE]
    /\ grouping_file = << >>
    /\ entry_dir = "" /\ cwd = "" /\ original_dir = ""
    /\ group_mapping = EmptyMap
    /\ lookedUp = << >> /\ cwdAtLoad = ""
    /\ lsOutcome = "" /\ files = << >> /\ index = 0
    /\ author_counts = EmptyMap /\ blamed = << >> /\ procs = << >>
    /\ last = [raised |-> FALSE, returncode |-> 0, blank |-> FALSE, attr |-> << >>]
    /\ prev_counts = EmptyMap
    /\ aggregated = FALSE /\ grouped_counts = EmptyMap
    /\ tablePrinted = FALSE /\ chartRendered = FALSE
    /\ result = ""
    /\ npc = "idle" /\ name_in = << >> /\ name_once = << >> /\ name_twice = << >>

\* line 34, one iteration: the next line is read and processed
LoadLine ==
    /\ lpc = "reading"
    /\ lidx < Len(glines)
    /\ ioFailsAt # lidx + 1
    /\ mapping' = ProcessLine(mapping, glines[lidx + 1])
    /\ lidx' = lidx + 1
    /\ UNCHANGED << mainVars, normVars, lpc, glines, ioFailsAt >>

\* lines 45-47: reading raised, the function returns {}
LoadFail ==
    /\ lpc = "reading"
    /\ ioFailsAt = lidx + 1
    /\ mapping' = EmptyMap
    /\ lpc' = "returned"
    /\ UNCHANGED << mainVars, normVars, glines, lidx, ioFailsAt >>

\* line 48: the file is exhausted, the function returns mapping
LoadReturn ==
    /\ lpc = "reading"
    /\ lidx = Len(glines)
    /\ ioFailsAt # lidx + 1
    /\ lpc' = "returned"
    /\ UNCHANGED << mainVars, normVars, glines, lidx, mapping, ioFailsAt >>

(***************************************************************************)
(* The environment of main: the file system and git                         *)
(***************************************************************************)
StartDir == "/start"      \* the directory the tool is started from
RepoDir == "/repo"        \* the directory repo_path names
ScriptDir == "/script"    \* os.path.dirname(os.path.abspath(__file__))

\* the values of the --grouping-file argument; printable is FALSE for a path
\* holding a surrogate-escaped byte, which a strict stdout cannot encode
NoArg == [given |-> FALSE, abs |-> FALSE, dir |-> "", name |-> "", printable |-> TRUE]
GroupingArgs == {
    NoArg,
    [given |-> TRUE, abs |-> FALSE, dir |-> "", name |-> "g.txt", printable |-> TRUE],
    [given |-> TRUE, abs |-> TRUE, dir |-> "/abs", name |-> "g.txt", printable |-> TRUE],
    [given |-> TRUE, abs |-> FALSE, dir |-> "", name |-> "UDCFF.txt", printable |-> FALSE]
}

\* line 73: os.path.join(script_dir, "grouping.txt")
DefaultPath ==
    [given |-> TRUE, abs |-> TRUE, dir |-> ScriptDir, name |-> "grouping.txt", printable |-> TRUE]

\* the location a path names when the working directory is cwdir
ResolvePath(cwdir, p) == IF p.abs THEN << p.dir, p.name >> ELSE << cwdir, p.name >>

\* no blame invocation has been made
NoBlame == [raised |-> FALSE, returncode |-> 0, blank |-> FALSE, attr |-> << >>]

NoFile == [exists |-> FALSE, lines |-> << >>]
FileSystem(loc) ==
    CASE loc = << RepoDir, "g.txt" >> ->
             [exists |-> TRUE, lines |-> << << "G", ":", " ", "a" >> >>]
      [] loc = << StartDir, "g.txt" >> ->
             [exists |-> TRUE, lines |-> << << "B", ":", " ", "g" >> >>]
      [] loc = << "/abs", "g.txt" >> ->
             [exists |-> TRUE, lines |-> << << "#", " ", "t" >>,
                                            << "G", ":", " ", "a", ",", " ", "g" >> >>]
      [] loc = << ScriptDir, "grouping.txt" >> ->
             [exists |-> TRUE, lines |-> << << "a", ":", " ", "A" >> >>]
      [] OTHER -> NoFile

\* commits of the repository and the author git records for each
Commits == {"1", "2", "3"}
AuthorOf(c) ==
    CASE c = "1" -> << "A" >>
      [] c = "2" -> << "a" >>
      [] OTHER -> << "G" >>

\* what git attributes a file's lines to: one commit per source line
Attributions == SeqsUpTo(Commits, MaxLines)

S_author == << "a", "u", "t", "h", "o", "r", " " >>
S_author_mail == << "a", "u", "t", "h", "o", "r", "-", "m", "a", "i", "l", " ", "<", ">" >>
S_committer == << "c", "o", "m", "m", "i", "t", "t", "e", "r", " " >>
S_summary == << "s", "u", "m", "m", "a", "r", "y", " ", "s" >>
S_filename == << "f", "i", "l", "e", "n", "a", "m", "e", " ", "f" >>

\* the text of the source lines a commit introduced; the lines of commit "1"
\* read like a header, those of commit "3" hold a form feed
ContentOf(c) ==
    CASE c = "1" -> S_author \o << "G" >>
      [] c = "2" -> << "x" >>
      [] OTHER -> << "x", "\f", "y" >>

\* the lines of a text, each ended by a newline
Text(lines) == Flatten([i \in 1..Len(lines) |-> lines[i] \o << "\n" >>])

\* the output of 'git blame -p' for a file with the given attribution: every
\* source line gets a hash line and a tab-prefixed content line; the commit
\* information follows the hash line only the first time a commit is named
RECURSIVE PorcelainFrom(_, _)
PorcelainFrom(attr, i) ==
    IF i > Len(attr) THEN << >>
    ELSE LET c == attr[i]
             first == \A j \in 1..(i - 1) : attr[j] # c
             hashLine == << c, " ", "1", " ", "1" >>
             info == IF first
                     THEN << S_author \o AuthorOf(c), S_author_mail,
                             S_committer \o AuthorOf(c), S_summary, S_filename >>
                     ELSE << >>
             content == << "\t" >> \o ContentOf(c)
         IN << hashLine >> \o info \o << content >> \o PorcelainFrom(attr, i + 1)

Porcelain(attr) == Text(PorcelainFrom(attr, 1))

(***************************************************************************)
(* main                                                                     *)
(***************************************************************************)
\* line 106: not result.stdout.strip()
IsBlankText(text) == Strip(text) = << >>

\* str.splitlines(): a line ends at "\n", "\r", "\r\n" or "\f"
IsLineBreak(c) == c \in {"\n", "\r", "\f"}

RECURSIVE SplitLines(_)
SplitLines(text) ==
    IF \A i \in 1..Len(text) : ~IsLineBreak(text[i])
    THEN (IF text = << >> THEN << >> ELSE << text >>)
    ELSE LET i == CHOOSE k \in 1..Len(text) :
                      IsLineBreak(text[k]) /\ \A j \in 1..(k - 1) : ~IsLineBreak(text[j])
             skip == IF text[i] = "\r" /\ i < Len(text) /\ text[i + 1] = "\n" THEN 2 ELSE 1
         IN << SubSeq(text, 1, i - 1) >> \o SplitLines(SubSeq(text, i + skip, Len(text)))

\* lines 110-114: one line of the blame output
ParseLine(counts, line) ==
    IF StartsWith(line, << "\t" >>) THEN counts
    ELSE IF StartsWith(line, S_author)
         THEN Inc(counts, Strip(SubSeq(line, Len(S_author) + 1, Len(line))), 1)
         ELSE counts

\* lines 109-114
RECURSIVE ParseBlame(_, _)
ParseBlame(counts, lines) ==
    IF lines = << >> THEN counts
    ELSE ParseBlame(ParseLine(counts, Head(lines)), Tail(lines))

\* the mutant overwrites the group's count
Accumulate_overwrite(grouped, group, count) == Put(grouped, group, count)

\* line 127
Accumulate(grouped, group, count) == Inc(grouped, group, count)

\* lines 124-127
RECURSIVE GroupCounts(_, _, _, _)
GroupCounts(grouped, authors, counts, gm) ==
    IF authors = {} THEN grouped
    ELSE LET author == CHOOSE a \in authors : TRUE
             group == Get(gm, normalize_name(author), author)
         IN GroupCounts(Accumulate(grouped, group, counts[author]),
                        authors \ {author}, counts, gm)

MainInit ==
    /\ pc = "validate"
    /\ repo \in { [isDir |-> FALSE, hasGit |-> FALSE],
                  [isDir |-> TRUE, hasGit |-> FALSE],
                  [isDir |-> TRUE, hasGit |-> TRUE] }
    /\ grouping_file \in GroupingArgs
    /\ cwd = StartDir
    /\ entry_dir = cwd
    /\ original_dir = ""
    /\ group_mapping = EmptyMap
    /\ lookedUp = << >>
    /\ cwdAtLoad = ""
    /\ lsOutcome = ""
    /\ files = << >>
    /\ index = 0
    /\ author_counts = EmptyMap
    /\ blamed = << >>
    /\ last = NoBlame
    /\ prev_counts = EmptyMap
    /\ procs = << >>
    /\ aggregated = FALSE
    /\ grouped_counts = EmptyMap
    /\ tablePrinted = FALSE
    /\ chartRendered = FALSE
    /\ result = ""
    \* normalize_name and load_grouping_mapping are not running on their own
    /\ npc = "idle" /\ name_in = << >> /\ name_once = << >> /\ name_twice = << >>
    /\ lpc = "idle" /\ glines = << >> /\ lidx = 0 /\ mapping = EmptyMap /\ ioFailsAt = 0

\* the mutant skips the check for the .git directory
Validate_noGitCheck ==
    /\ pc = "validate"
    /\ IF ~repo.isDir
       THEN /\ result' = "ValueError: not a valid directory"
            /\ pc' = "done"
       ELSE /\ pc' = "chdir"
            /\ UNCHANGED result
    /\ UNCHANGED << normVars, loadVars, repo, grouping_file, entry_dir, cwd, original_dir, group_mapping, lookedUp,
                    cwdAtLoad, lsOutcome, files, index, author_counts, blamed, last, prev_counts, procs,
                    aggregated, grouped_counts, tablePrinted, chartRendered >>

\* lines 59-64
Validate ==
    /\ pc = "validate"
    /\ IF ~repo.isDir
       THEN /\ result' = "ValueError: not a valid directory"
            /\ pc' = "done"
       ELSE IF ~repo.hasGit
       THEN /\ result' = "ValueError: not a Git repository"
            /\ pc' = "done"
       ELSE /\ pc' = "chdir"
            /\ UNCHANGED result
    /\ UNCHANGED << normVars, loadVars, repo, grouping_file, entry_dir, cwd, original_dir, group_mapping, lookedUp,
                    cwdAtLoad, lsOutcome, files, index, author_counts, blamed, last, prev_counts, procs,
                    aggregated, grouped_counts, tablePrinted, chartRendered >>

\* the mutant records the directory but does not change to the repository
Chdir_missing ==
    /\ pc = "chdir"
    /\ original_dir' = cwd
    /\ pc' = "load"
    /\ UNCHANGED << normVars, loadVars, repo, grouping_file, entry_dir, cwd, group_mapping, lookedUp, cwdAtLoad,
                    lsOutcome, files, index, author_counts, blamed, last, prev_counts, procs, aggregated,
                    grouped_counts, tablePrinted, chartRendered, result >>

\* lines 66-67
Chdir ==
    /\ pc = "chdir"
    /\ original_dir' = cwd
    /\ cwd' = RepoDir
    /\ pc' = "load"
    /\ UNCHANGED << normVars, loadVars, repo, grouping_file, entry_dir, group_mapping, lookedUp, cwdAtLoad,
                    lsOutcome, files, index, author_counts, blamed, last, prev_counts, procs, aggregated,
                    grouped_counts, tablePrinted, chartRendered, result >>

\* lines 69-77, outside the try block; the print of line 75 raises
\* UnicodeEncodeError when stdout cannot encode the path
LoadAliases ==
    /\ pc = "load"
    /\ LET path == IF grouping_file.given /\ grouping_file.name # ""
                   THEN grouping_file ELSE DefaultPath
           loc == ResolvePath(cwd, path)
       IN \E printRaises \in {FALSE, ~path.printable}, ioError \in {FALSE, FileSystem(loc).exists} :
            IF printRaises
            THEN /\ result' = "UnicodeEncodeError"
                 /\ pc' = "done"
                 /\ UNCHANGED << group_mapping, lookedUp, cwdAtLoad >>
            ELSE /\ lookedUp' = loc
                 /\ cwdAtLoad' = cwd
                 /\ group_mapping' = load_grouping_mapping(FileSystem(loc), ioError)
                 /\ pc' = "list"
                 /\ UNCHANGED result
    /\ UNCHANGED << normVars, loadVars, repo, grouping_file, entry_dir, cwd, original_dir, lsOutcome, files, index,
                    author_counts, blamed, last, prev_counts, procs, aggregated, grouped_counts,
                    tablePrinted, chartRendered >>

\* the mutant does not look at the exit status
ListFiles_unchecked ==
    /\ pc = "list"
    /\ procs' = Append(procs, << "git", "ls-files" >>)
    /\ \E outcome \in {"ok", "nonzero", "raised"}, n \in 0..MaxFiles :
         /\ lsOutcome' = outcome
         /\ IF outcome = "raised"
            THEN /\ result' = "OSError"
                 /\ pc' = "finally"
                 /\ UNCHANGED << files, author_counts >>
            ELSE /\ files' = [i \in 1..n |-> i]
                 /\ author_counts' = EmptyMap
                 /\ pc' = "blame"
                 /\ UNCHANGED result
    /\ UNCHANGED << normVars, loadVars, repo, grouping_file, entry_dir, cwd, original_dir,
                    group_mapping, lookedUp, cwdAtLoad, index, blamed, last, prev_counts, aggregated,
                    grouped_counts, tablePrinted, chartRendered >>

\* lines 79-92: 'git ls-files' raises, exits non-zero or lists n files
ListFiles ==
    /\ pc = "list"
    /\ procs' = Append(procs, << "git", "ls-files" >>)
    /\ \E outcome \in {"ok", "nonzero", "raised"}, n \in 0..MaxFiles :
         /\ lsOutcome' = outcome
         /\ IF outcome = "raised"
            THEN /\ result' = "OSError"
                 /\ pc' = "finally"
                 /\ UNCHANGED << files, author_counts >>
            ELSE IF outcome = "nonzero"
            THEN /\ result' = "RuntimeError: Failed to get list of files"
                 /\ pc' = "finally"
                 /\ UNCHANGED << files, author_counts >>
            ELSE /\ files' = [i \in 1..n |-> i]
                 /\ author_counts' = EmptyMap
                 /\ pc' = "blame"
                 /\ UNCHANGED result
    /\ UNCHANGED << normVars, loadVars, repo, grouping_file, entry_dir, cwd, original_dir,
                    group_mapping, lookedUp, cwdAtLoad, index, blamed, last, prev_counts, aggregated,
                    grouped_counts, tablePrinted, chartRendered >>

\* lines 106 and 115: the file is skipped
BlameSkips(raised, returncode, stdout) ==
    raised \/ returncode # 0 \/ IsBlankText(stdout)

\* the mutant counts whatever a failed invocation printed
BlameCounts_unchecked(counts, raised, returncode, stdout) ==
    IF raised THEN counts ELSE ParseBlame(counts, SplitLines(stdout))

\* lines 97-116: author_counts after one file
BlameCounts(counts, raised, returncode, stdout) ==
    IF BlameSkips(raised, returncode, stdout) THEN counts
    ELSE ParseBlame(counts, SplitLines(stdout))

\* what a blame invocation that did not raise wrote to stdout
BlameStdout(e) ==
    IF e.raised THEN << >>
    ELSE IF e.blank THEN << " ", "\n" >>
    ELSE Porcelain(e.attr)

\* the ways one blame invocation can end: it raises, or it exits with a
\* status after printing blank text or the porcelain output of the file
BlameResults ==
    { [raised |-> TRUE, returncode |-> 0, blank |-> FALSE, attr |-> << >>] }
    \cup { [raised |-> FALSE, returncode |-> rc, blank |-> TRUE, attr |-> << >>] : rc \in {0, 1} }
    \cup { [raised |-> FALSE, returncode |-> rc, blank |-> FALSE, attr |-> a] :
              rc \in {0, 1}, a \in Attributions }

\* lines 94-116, one iteration: the next file is blamed
BlameFile ==
    /\ pc = "blame"
    /\ index < Len(files)
    /\ \E e \in BlameResults :
         /\ last' = e
         /\ blamed' = Append(blamed, IF BlameSkips(e.raised, e.returncode, BlameStdout(e))
                                     THEN "skipped" ELSE "counted")
         /\ author_counts' = BlameCounts(author_counts, e.raised, e.returncode, BlameStdout(e))
    /\ prev_counts' = author_counts
    /\ procs' = Append(procs, << "git", "blame", "-p", "--", files[index + 1] >>)
    /\ index' = index + 1
    /\ UNCHANGED << normVars, loadVars, pc, repo, grouping_file, entry_dir, cwd, original_dir,
                    group_mapping, lookedUp, cwdAtLoad, lsOutcome, files, aggregated,
                    grouped_counts, tablePrinted, chartRendered, result >>

\* the mutant reports even when there is nothing to report
CheckEmpty_always ==
    /\ pc = "blame"
    /\ index = Len(files)
    /\ aggregated' = TRUE
    /\ pc' = "report"
    /\ UNCHANGED << normVars, loadVars, repo, grouping_file, entry_dir, cwd, original_dir, group_mapping, lookedUp,
                    cwdAtLoad, lsOutcome, files, index, author_counts, blamed, last, prev_counts, procs,
                    grouped_counts, tablePrinted, chartRendered, result >>

\* lines 118-122: the loop is over
CheckEmpty ==
    /\ pc = "blame"
    /\ index = Len(files)
    /\ aggregated' = TRUE
    /\ IF author_counts = EmptyMap
       THEN /\ result' = "returned"
            /\ pc' = "finally"
       ELSE /\ pc' = "report"
            /\ UNCHANGED result
    /\ UNCHANGED << normVars, loadVars, repo, grouping_file, entry_dir, cwd, original_dir, group_mapping, lookedUp,
                    cwdAtLoad, lsOutcome, files, index, author_counts, blamed, last, prev_counts, procs,
                    grouped_counts, tablePrinted, chartRendered >>

\* lines 124-148: group, sort, print the table, render the charts; the table
\* or the charts may raise
Report ==
    /\ pc = "report"
    /\ grouped_counts' = GroupCounts(EmptyMap, DOMAIN author_counts, author_counts, group_mapping)
    /\ \E failure \in {"none", "table", "chart"} :
         /\ tablePrinted' = (failure # "table")
         /\ chartRendered' = (failure # "table")
         /\ result' = IF failure = "none" THEN "returned" ELSE "Exception in report"
    /\ pc' = "finally"
    /\ UNCHANGED << normVars, loadVars, repo, grouping_file, entry_dir, cwd, original_dir, group_mapping, lookedUp,
                    cwdAtLoad, lsOutcome, files, index, author_counts, blamed, last, prev_counts, procs,
                    aggregated >>

\* lines 150-151
Finally ==
    /\ pc = "finally"
    /\ cwd' = original_dir
    /\ pc' = "done"
    /\ UNCHANGED << normVars, loadVars, repo, grouping_file, entry_dir, original_dir, group_mapping, lookedUp,
                    cwdAtLoad, lsOutcome, files, index, author_counts, blamed, last, prev_counts, procs,
                    aggregated, grouped_counts, tablePrinted, chartRendered, result >>

(***************************************************************************)
(* normalize_name applied to a name and then to its own result              *)
(***************************************************************************)
NormInit ==
    /\ npc = "start"
    /\ name_in \in Names
    /\ name_once = << >>
    /\ name_twice = << >>
    \* main and load_grouping_mapping are not running
    /\ pc = "idle"
    /\ repo = [isDir |-> FALSE, hasGit |-> FALSE]
    /\ grouping_file = << >>
    /\ entry_dir = "" /\ cwd = "" /\ original_dir = ""
    /\ group_mapping = EmptyMap
    /\ lookedUp = << >> /\ cwdAtLoad = ""
    /\ lsOutcome = "" /\ files = << >> /\ index = 0
    /\ author_counts = EmptyMap /\ blamed = << >> /\ procs = << >>
    /\ last = [raised |-> FALSE, returncode |-> 0, blank |-> FALSE, attr |-> << >>]
    /\ prev_counts = EmptyMap
    /\ aggregated = FALSE /\ grouped_counts = EmptyMap
    /\ tablePrinted = FALSE /\ chartRendered = FALSE
    /\ result = ""
    /\ lpc = "idle" /\ glines = << >> /\ lidx = 0 /\ mapping = EmptyMap /\ ioFailsAt = 0

NormalizeOnce ==
    /\ npc = "start"
    /\ name_once' = normalize_name(name_in)
    /\ npc' = "once"
    /\ UNCHANGED << mainVars, loadVars, name_in, name_twice >>

NormalizeTwice ==
    /\ npc = "once"
    /\ name_twice' = normalize_name(name_once)
    /\ npc' = "twice"
    /\ UNCHANGED << mainVars, loadVars, name_in, name_once >>

NormNext == NormalizeOnce \/ NormalizeTwice
SpecNorm == NormInit /\ [][NormNext]_vars

LoadNext == LoadLine \/ LoadFail \/ LoadReturn
SpecLoad == LoadInit /\ [][LoadNext]_vars

MainNext ==
    \/ Validate
    \/ Chdir
    \/ LoadAliases
    \/ ListFiles
    \/ BlameFile
    \/ CheckEmpty
    \/ Report
    \/ Finally
Spec == MainInit /\ [][MainNext]_vars

(***************************************************************************)
(* Properties                                                               *)
(***************************************************************************)
BlameSucceeded(e) ==
    /\ ~e.raised
    /\ e.returncode = 0
    /\ \E i \in 1..Len(BlameStdout(e)) : ~IsSpace(BlameStdout(e)[i])

BlameProcs == SelectSeq(procs, LAMBDA p : Len(p) > 1 /\ p[2] = "blame")

\* C1: every run that changed the working directory to repo_path ends, on
\* every outcome, with the working directory it was entered with.
C1_CwdRestoredOnEveryOutcome ==
    (pc = "done" /\ original_dir # "") => cwd = entry_dir

\* C2: the counts of GroupedCounts add up to the counts of AuthorCounts.
C2_GroupingPreservesTotal ==
    (aggregated /\ author_counts # EmptyMap /\ pc \in {"finally", "done"})
        => Total(grouped_counts) = Total(author_counts)

C2_Witness ==
    /\ pc = "done"
    /\ DOMAIN author_counts = { << "A" >>, << "a" >>, << "G" >> }
    /\ DOMAIN grouped_counts = { << "G" >> }
    /\ << "g" >> \notin DOMAIN group_mapping
    /\ Total(author_counts) >= 3

\* C3: a file whose blame exits non-zero, prints nothing or raises leaves
\* AuthorCounts as it was and does not end the run: every listed file is
\* blamed, and AuthorCounts holds the counts of the successful files only.
C3_FailedBlameIsSkipped ==
    /\ (blamed # << >> /\ ~BlameSucceeded(last)) => author_counts = prev_counts
    /\ (blamed # << >> /\ BlameSucceeded(last)) =>
          author_counts = ParseBlame(prev_counts, SplitLines(BlameStdout(last)))
    /\ (\A i \in 1..Len(blamed) : blamed[i] = "skipped") => author_counts = EmptyMap
    /\ blamed # << >> => (blamed[Len(blamed)] = "counted" <=> BlameSucceeded(last))
    /\ pc = "blame" => (result = "" /\ Len(blamed) = index)
    /\ aggregated =>
          /\ Len(blamed) = Len(files)
          /\ Len(BlameProcs) = Len(files)
          /\ \A i \in 1..Len(files) : BlameProcs[i][5] = files[i]

C3_Witness ==
    /\ pc = "done"
    /\ result = "returned"
    /\ blamed = << "skipped", "counted" >>
    /\ BlameSucceeded(last)
    /\ prev_counts = EmptyMap
    /\ author_counts # EmptyMap

\* C4: when 'git ls-files' exits non-zero or raises, main raises, no file is
\* blamed, no table is printed and no chart is rendered.
C4_ListFailureAbortsRun ==
    lsOutcome \in {"nonzero", "raised"} =>
        /\ pc \in {"finally", "done"}
        /\ result \in {"RuntimeError: Failed to get list of files", "OSError"}
        /\ BlameProcs = << >>
        /\ blamed = << >>
        /\ ~tablePrinted
        /\ ~chartRendered

C4_Witness ==
    /\ pc = "done"
    /\ lsOutcome = "nonzero"
    /\ result = "RuntimeError: Failed to get list of files"

NoSideEffect ==
    /\ cwd = entry_dir
    /\ original_dir = ""
    /\ lookedUp = << >>
    /\ procs = << >>

C6_EmptyCountsEndWithoutChart ==
    /\ (aggregated /\ author_counts = EmptyMap) =>
          /\ pc \in {"finally", "done"}
          /\ result = "returned"
          /\ grouped_counts = EmptyMap
          /\ ~tablePrinted
          /\ ~chartRendered
          /\ pc = "done" => cwd = entry_dir
    /\ chartRendered => (aggregated /\ author_counts # EmptyMap)

C6_Witness ==
    /\ pc = "done"
    /\ aggregated
    /\ author_counts = EmptyMap
    /\ Len(files) = 2
    /\ blamed = << "skipped", "skipped" >>
    /\ cwd = StartDir

\* the normalized aliases a line of the grouping file lists, and its group
IsEntryLine(rawline) ==
    /\ Strip(rawline) # << >>
    /\ Head(Strip(rawline)) # "#"
    /\ Contains(rawline, ":")
ListedAliases(rawline) ==
    IF ~IsEntryLine(rawline) THEN {}
    ELSE LET pieces == Split(SplitOnce(Strip(rawline), ":")[2], ",")
         IN { normalize_name(pieces[i]) : i \in { j \in 1..Len(pieces) : Strip(pieces[j]) # << >> } }
GroupNameOf(rawline) == Strip(SplitOnce(Strip(rawline), ":")[1])
LastListing(k, n) ==
    CHOOSE i \in 1..n : /\ k \in ListedAliases(glines[i])
                        /\ \A j \in (i + 1)..n : k \notin ListedAliases(glines[j])

\* C7: the mapping holds exactly the normalized aliases the lines read so far
\* list, each with the trimmed group name of the last line listing it; blank
\* lines, '#' lines and lines without ':' change nothing.
C7_LastListingWins ==
    /\ ioFailsAt = 0 =>
          /\ DOMAIN mapping = UNION { ListedAliases(glines[i]) : i \in 1..lidx }
          /\ \A k \in DOMAIN mapping : mapping[k] = GroupNameOf(glines[LastListing(k, lidx)])
    /\ (lpc = "returned" /\ ioFailsAt # 0) => mapping = EmptyMap

C7_Witness ==
    /\ lpc = "returned"
    /\ ioFailsAt = 0
    /\ glines = << << "A", ":", " ", "x", ",", " ", "y" >>, << "B", ":", " ", "x" >> >>
    /\ mapping[<< "x" >>] = << "B" >>
    /\ mapping[<< "y" >>] = << "A" >>

\* C8: normalize_name is idempotent.
C8_NormalizeIdempotent ==
    npc = "twice" => name_twice = name_once

\* the source lines of the latest blamed file that git attributes to author
LinesAttributed(author) ==
    Cardinality({ i \in 1..Len(last.attr) : AuthorOf(last.attr[i]) = author })

\* C9: every parsed file raises each author's count by the number of its
\* source lines attributed to that author.
C9_CountsEqualAttributedLines ==
    (blamed # << >> /\ BlameSucceeded(last)) =>
        \A c \in Commits :
            Get(author_counts, AuthorOf(c), 0)
                = Get(prev_counts, AuthorOf(c), 0) + LinesAttributed(AuthorOf(c))

\* C10: the alias mapping is loaded while the working directory is repo_path,
\* so a relative --grouping-file is read relative to the repository and the
\* default path next to the script is used whatever the directory.
C10_AliasesLoadedInsideRepo ==
    lookedUp # << >> =>
        /\ cwdAtLoad = RepoDir
        /\ pc \notin {"validate", "chdir", "load"}
        /\ (grouping_file.given /\ ~grouping_file.abs) =>
              /\ lookedUp = << RepoDir, grouping_file.name >>
              /\ group_mapping \in { EmptyMap,
                                     load_grouping_mapping(FileSystem(<< RepoDir, grouping_file.name >>), FALSE) }
        /\ ~grouping_file.given =>
              lookedUp = << ScriptDir, "grouping.txt" >>

C10_Witness ==
    /\ pc = "done"
    /\ entry_dir = StartDir
    /\ grouping_file.name = "g.txt"
    /\ ~grouping_file.abs
    /\ lookedUp = << RepoDir, "g.txt" >>
    /\ DOMAIN group_mapping = { << "a" >> }
    /\ group_mapping[<< "a" >>] = << "G" >>

====
